---- MODULE Spec2Model ----
(***************************************************************************)
(* Sokoban solver core of kava117/CMS430-AI (src/sokoban_solver):          *)
(* parser, state model, reachability and move generation, static deadlock  *)
(* squares, goal-distance heuristic and the A* search entry points.        *)
(*                                                                         *)
(* Positions are pairs <<x, y>>.  A State is a record                      *)
(* [player_pos, boxes]; a PuzzleStatic is a record                         *)
(* [walls, goals, width, height, deadlock_squares].                        *)
(* Python's None is the empty tuple, float('inf') is the number Infinity.  *)
(***************************************************************************)
EXTENDS Integers, Sequences, FiniteSets, TLC

VARIABLES
    puzzle_string,    \* argument of solve_puzzle: a sequence of characters
    max_states,       \* argument of solve_puzzle / solve
    pc,               \* position inside solve_puzzle / solve
    static,           \* PuzzleStatic built by solve_puzzle
    initial_state,    \* State built by solve_puzzle
    goal_distances,   \* solve: table of precompute_goal_distances
    open_set,         \* solve: heap of (f, counter, g, state, path)
    closed_set,       \* solve: finalized states
    best_g,           \* solve: best known g per state
    counter,          \* solve: FIFO tie-break counter
    states_explored,  \* solve: number of expansions
    solve_out,        \* what solve() returned or raised
    result,           \* what solve_puzzle() returned
    cur_state,        \* move specification: the current State
    last_op           \* move specification: the last operation performed

vars == <<puzzle_string, max_states, pc, static, initial_state, goal_distances,
          open_set, closed_set, best_g, counter, states_explored, solve_out,
          result, cur_state, last_op>>

-----------------------------------------------------------------------------
(* Bounds of the model *)

\* width of the puzzle texts given to solve_puzzle
GridW == 3
\* height of the puzzle texts given to solve_puzzle
GridH == 2
\* most boxes / goals / walls written into a puzzle text
MaxBoxes == 2
MaxGoals == 2
MaxWalls == 1
\* largest max_states argument tried
MaxStatesArg == 1

\* float('inf') of the heuristic, larger than any finite distance sum
Infinity == 999

None == <<>>

-----------------------------------------------------------------------------
(* Generic helpers *)

Min(S) == CHOOSE m \in S : \A n \in S : m <= n

\* a position before another in row-major order
PosLess(p, q) == p[2] < q[2] \/ (p[2] = q[2] /\ p[1] < q[1])

\* the positions of a set in row-major order: one of its orderings, used
\* where the order does not matter
RECURSIVE RefRowMajor(_)
RefRowMajor(S) ==
    IF S = {} THEN <<>>
    ELSE LET m == CHOOSE p \in S : \A q \in S \ {p} : PosLess(p, q)
         IN <<m>> \o RefRowMajor(S \ {m})

\* list(a_set), for box in a_set: a frozenset is iterated in the order of its
\* hash table, which depends on how the set was built and not on its
\* elements alone, so every ordering is a possible run
RECURSIVE Orderings(_)
Orderings(S) ==
    IF S = {} THEN {<<>>}
    ELSE UNION {{<<e>> \o t : t \in Orderings(S \ {e})} : e \in S}

-----------------------------------------------------------------------------
(* core/state.py *)

State(player_pos, boxes) == [player_pos |-> player_pos, boxes |-> boxes]

PuzzleStatic(walls, goals, width, height, deadlock_squares) ==
    [walls |-> walls, goals |-> goals, width |-> width, height |-> height,
     deadlock_squares |-> deadlock_squares]

\* mutant: as many boxes as goals, wherever they stand
is_goal_state_count(state, puzzle_static) ==
    Cardinality(state.boxes) = Cardinality(puzzle_static.goals)

\* mutant: any box on a goal instead of all of them
is_goal_state_any(state, puzzle_static) ==
    state.boxes \cap puzzle_static.goals # {}

is_goal_state(state, puzzle_static) == state.boxes = puzzle_static.goals

-----------------------------------------------------------------------------
(* core/parser.py *)

\* the one-character strings str.strip() removes that a TLA+ string can
\* hold: space, tab, carriage return, form feed, then (written as the
\* characters themselves) vertical tab, the separators U+001C to U+001F,
\* next line U+0085 and no-break space U+00A0; the newline never occurs in
\* a line, and the Unicode spaces above U+00FF cannot be written here
Whitespace == {" ", "\t", "\r", "\f", "", "", "", "", "", "", " "}

\* line.strip() == ''
IsBlank(line) == \A i \in 1..Len(line) : line[i] \in Whitespace

\* str.split('\n')
RECURSIVE SplitLines(_, _)
SplitLines(s, cur) ==
    IF s = <<>> THEN <<cur>>
    ELSE IF Head(s) = "\n" THEN <<cur>> \o SplitLines(Tail(s), <<>>)
    ELSE SplitLines(Tail(s), Append(cur, Head(s)))

RECURSIVE DropTrailingBlank(_)
DropTrailingBlank(lines) ==
    IF lines # <<>> /\ IsBlank(lines[Len(lines)])
    THEN DropTrailingBlank(SubSeq(lines, 1, Len(lines) - 1))
    ELSE lines

RECURSIVE DropLeadingBlank(_)
DropLeadingBlank(lines) ==
    IF lines # <<>> /\ IsBlank(lines[1])
    THEN DropLeadingBlank(Tail(lines))
    ELSE lines

\* str.ljust(width)
LJust(line, width) ==
    [i \in 1..(IF Len(line) > width THEN Len(line) ELSE width) |->
        IF i <= Len(line) THEN line[i] ELSE " "]

parse_puzzle_string(puzzle_str) ==
    LET lines == DropLeadingBlank(DropTrailingBlank(SplitLines(puzzle_str, <<>>)))
    IN IF lines = <<>> THEN <<>>
       ELSE LET max_width ==
                    CHOOSE w \in {Len(lines[i]) : i \in 1..Len(lines)} :
                        \A i \in 1..Len(lines) : Len(lines[i]) <= w
            IN [i \in 1..Len(lines) |-> LJust(lines[i], max_width)]

\* the 0-based (x, y) of the grid cells holding one of the characters cs
CellsWith(grid, cs) ==
    {p \in UNION {{<<x - 1, y - 1>> : x \in 1..Len(grid[y])} : y \in 1..Len(grid)} :
        grid[p[2] + 1][p[1] + 1] \in cs}

\* mutant: a player on a goal does not add the goal
extract_elements_plus(grid) ==
    LET height == Len(grid)
        width == IF grid # <<>> THEN Len(grid[1]) ELSE 0
        players == IF grid = <<>> THEN {} ELSE CellsWith(grid, {"@", "+"})
    IN [player |-> IF players = {} THEN None
                   ELSE CHOOSE p \in players : \A q \in players \ {p} : PosLess(q, p),
        boxes |-> IF grid = <<>> THEN {} ELSE CellsWith(grid, {"$", "*"}),
        goals |-> IF grid = <<>> THEN {} ELSE CellsWith(grid, {".", "*"}),
        walls |-> IF grid = <<>> THEN {} ELSE CellsWith(grid, {"#"}),
        width |-> width,
        height |-> height]

extract_elements(grid) ==
    LET height == Len(grid)
        width == IF grid # <<>> THEN Len(grid[1]) ELSE 0
        players == IF grid = <<>> THEN {} ELSE CellsWith(grid, {"@", "+"})
    IN [player |-> IF players = {} THEN None
                   \* the scan is row-major, the last player cell wins
                   ELSE CHOOSE p \in players : \A q \in players \ {p} : PosLess(q, p),
        boxes |-> IF grid = <<>> THEN {} ELSE CellsWith(grid, {"$", "*"}),
        goals |-> IF grid = <<>> THEN {} ELSE CellsWith(grid, {".", "+", "*"}),
        walls |-> IF grid = <<>> THEN {} ELSE CellsWith(grid, {"#"}),
        width |-> width,
        height |-> height]

\* PuzzleStatic.from_elements
from_elements(elements) ==
    PuzzleStatic(elements.walls, elements.goals, elements.width, elements.height, {})

-----------------------------------------------------------------------------
(* core/moves.py *)

DIRECTIONS == <<"U", "D", "L", "R">>

DirSet == {"U", "D", "L", "R"}

Delta(d) ==
    CASE d = "U" -> <<0, -1>>
      [] d = "D" -> <<0, 1>>
      [] d = "L" -> <<-1, 0>>
      [] d = "R" -> <<1, 0>>

Plus(p, d) == <<p[1] + Delta(d)[1], p[2] + Delta(d)[2]>>
Minus(p, d) == <<p[1] - Delta(d)[1], p[2] - Delta(d)[2]>>

InBounds(p, width, height) ==
    0 <= p[1] /\ p[1] < width /\ 0 <= p[2] /\ p[2] < height

\* mutant: the search stops after the neighbours of the start
ReachFrom_onestep(visited, obstacles, width, height) ==
    visited \cup {n \in {Plus(p, d) : p \in visited, d \in DirSet} :
                     InBounds(n, width, height) /\ n \notin obstacles}

RECURSIVE ReachFrom(_, _, _, _)
ReachFrom(visited, obstacles, width, height) ==
    LET new == {n \in {Plus(p, d) : p \in visited, d \in DirSet} :
                   InBounds(n, width, height) /\ n \notin obstacles /\ n \notin visited}
    IN IF new = {} THEN visited
       ELSE ReachFrom(visited \cup new, obstacles, width, height)

get_reachable_positions(player_pos, boxes, walls, width, height) ==
    ReachFrom({player_pos}, walls \cup boxes, width, height)

\* mutant: the destination is also refused on the last column and row
GenLegal_offbyone(box, d, state, puzzle_static, reachable) ==
    /\ Minus(box, d) \in reachable
    /\ Plus(box, d) \notin (puzzle_static.walls \cup state.boxes)
    /\ 0 <= Plus(box, d)[1] /\ Plus(box, d)[1] < puzzle_static.width - 1
    /\ 0 <= Plus(box, d)[2] /\ Plus(box, d)[2] < puzzle_static.height - 1

\* mutant: the destination may hold another box
GenLegal_ontobox(box, d, state, puzzle_static, reachable) ==
    /\ Minus(box, d) \in reachable
    /\ Plus(box, d) \notin puzzle_static.walls
    /\ 0 <= Plus(box, d)[1] /\ Plus(box, d)[1] < puzzle_static.width
    /\ 0 <= Plus(box, d)[2] /\ Plus(box, d)[2] < puzzle_static.height

\* the condition under which generate_moves appends a move
GenLegal(box, d, state, puzzle_static, reachable) ==
    /\ Minus(box, d) \in reachable
    /\ Plus(box, d) \notin (puzzle_static.walls \cup state.boxes)
    /\ 0 <= Plus(box, d)[1] /\ Plus(box, d)[1] < puzzle_static.width
    /\ 0 <= Plus(box, d)[2] /\ Plus(box, d)[2] < puzzle_static.height

\* mutant: the player is left where it stood
GenPushed_player(state, box, d) ==
    State(state.player_pos, (state.boxes \ {box}) \cup {Plus(box, d)})

\* the new State generate_moves builds for a push of box in direction d
GenPushed(state, box, d) ==
    State(box, (state.boxes \ {box}) \cup {Plus(box, d)})

\* the (box, direction) pairs in the order the two nested loops visit them
BoxDirPairs(boxseq) ==
    [k \in 1..(4 * Len(boxseq)) |->
        <<boxseq[((k - 1) \div 4) + 1], DIRECTIONS[((k - 1) % 4) + 1]>>]

\* the list generate_moves builds when "for box in state.boxes" visits the
\* boxes in the given order; each entry appended to moves is the triple
\* (direction, new_state, box)
generate_moves_in_order(state, puzzle_static, order) ==
    LET reachable == get_reachable_positions(state.player_pos, state.boxes,
                         puzzle_static.walls, puzzle_static.width, puzzle_static.height)
        Ok(bd) == GenLegal(bd[1], bd[2], state, puzzle_static, reachable)
        legal == SelectSeq(BoxDirPairs(order), Ok)
    IN [k \in 1..Len(legal) |->
           <<legal[k][2], GenPushed(state, legal[k][1], legal[k][2]), legal[k][1]>>]

\* generate_moves: the frozenset of boxes is iterated in an order the caller
\* does not control, so the list of every order is a possible return value
generate_moves(state, puzzle_static) ==
    {generate_moves_in_order(state, puzzle_static, order) :
        order \in Orderings(state.boxes)}

ValueError(msg) == [raised |-> "ValueError", msg |-> msg]

IsRaise(o) == "raised" \in DOMAIN o

\* a call that has not returned yet
Pending == [pending |-> TRUE]

IsPending(o) == "pending" \in DOMAIN o

\* mutant: the destination may be a wall
ApplyLegal_nowall(box, d, state, puzzle_static, reachable) ==
    /\ Minus(box, d) \in reachable
    /\ Plus(box, d) \notin state.boxes
    /\ 0 <= Plus(box, d)[1] /\ Plus(box, d)[1] < puzzle_static.width
    /\ 0 <= Plus(box, d)[2] /\ Plus(box, d)[2] < puzzle_static.height

\* the condition under which apply_move pushes a box
\* mutant: the square to push from need not be reachable
ApplyLegal_anywhere(box, d, state, puzzle_static, reachable) ==
    /\ Plus(box, d) \notin (puzzle_static.walls \cup state.boxes)
    /\ 0 <= Plus(box, d)[1] /\ Plus(box, d)[1] < puzzle_static.width
    /\ 0 <= Plus(box, d)[2] /\ Plus(box, d)[2] < puzzle_static.height

ApplyLegal(box, d, state, puzzle_static, reachable) ==
    /\ Minus(box, d) \in reachable
    /\ Plus(box, d) \notin (puzzle_static.walls \cup state.boxes)
    /\ 0 <= Plus(box, d)[1] /\ Plus(box, d)[1] < puzzle_static.width
    /\ 0 <= Plus(box, d)[2] /\ Plus(box, d)[2] < puzzle_static.height

\* mutant: the player is put on the square the box is pushed to
ApplyPushed_ahead(state, box, d) ==
    State(Plus(box, d), (state.boxes \ {box}) \cup {Plus(box, d)})

\* the new State apply_move returns for a push of box in direction d
ApplyPushed(state, box, d) ==
    State(box, (state.boxes \ {box}) \cup {Plus(box, d)})

\* the loop of apply_move with the boxes iterated in the given order
apply_move_in_order(state, direction, puzzle_static, reachable, order) ==
    LET hits == {i \in 1..Len(order) :
                    ApplyLegal(order[i], direction, state, puzzle_static, reachable)}
    IN IF hits = {} THEN ValueError(<<"No valid push", direction>>)
       ELSE ApplyPushed(state, order[Min(hits)], direction)

\* apply_move: the frozenset of boxes is iterated in an order the caller
\* does not control, so every order is a possible run
apply_move(state, direction, puzzle_static) ==
    LET reachable == get_reachable_positions(state.player_pos, state.boxes,
                         puzzle_static.walls, puzzle_static.width, puzzle_static.height)
    IN {apply_move_in_order(state, direction, puzzle_static, reachable, order) :
           order \in Orderings(state.boxes)}

-----------------------------------------------------------------------------
(* solver/deadlock.py *)

\* mutant: one wall beside the square is taken for a corner
is_corner_deadlock_onewall(pos, walls, goals) ==
    IF pos \in goals THEN FALSE
    ELSE LET top == <<pos[1], pos[2] - 1>> \in walls
             bottom == <<pos[1], pos[2] + 1>> \in walls
             left == <<pos[1] - 1, pos[2]>> \in walls
             right == <<pos[1] + 1, pos[2]>> \in walls
         IN top \/ bottom \/ left \/ right

is_corner_deadlock(pos, walls, goals) ==
    IF pos \in goals THEN FALSE
    ELSE LET top == <<pos[1], pos[2] - 1>> \in walls
             bottom == <<pos[1], pos[2] + 1>> \in walls
             left == <<pos[1] - 1, pos[2]>> \in walls
             right == <<pos[1] + 1, pos[2]>> \in walls
         IN (top /\ left) \/ (top /\ right) \/ (bottom /\ left) \/ (bottom /\ right)

\* mutant: the bottom row of the grid is not visited
compute_static_deadlocks_rows(walls, goals, width, height) ==
    {pos \in (0..(width - 1)) \X (0..(height - 2)) :
        pos \notin walls /\ pos \notin goals /\ is_corner_deadlock(pos, walls, goals)}

compute_static_deadlocks(walls, goals, width, height) ==
    {pos \in (0..(width - 1)) \X (0..(height - 1)) :
        pos \notin walls /\ pos \notin goals /\ is_corner_deadlock(pos, walls, goals)}

\* some box off the goals has, in each of the four directions, its
\* destination on a wall or a box or the square pushed from on a wall
\* mutant: boxes on goals are tested like the others
is_freeze_deadlock_ongoals(boxes, walls, goals) ==
    \E b \in boxes :
        ~\E d \in {<<0, 1>>, <<0, -1>>, <<1, 0>>, <<-1, 0>>} :
            LET new_box == <<b[1] + d[1], b[2] + d[2]>>
                push_from == <<b[1] - d[1], b[2] - d[2]>>
            IN new_box \notin walls /\ new_box \notin boxes /\ push_from \notin walls

is_freeze_deadlock(boxes, walls, goals) ==
    \E b \in boxes :
        /\ b \notin goals
        /\ ~\E d \in {<<0, 1>>, <<0, -1>>, <<1, 0>>, <<-1, 0>>} :
              LET new_box == <<b[1] + d[1], b[2] + d[2]>>
                  push_from == <<b[1] - d[1], b[2] - d[2]>>
              IN new_box \notin walls /\ new_box \notin boxes /\ push_from \notin walls

\* mutant: a square of four boxes is reported only when none is on a goal
is_2x2_deadlock_nogoal(boxes, walls, goals) ==
    \E b \in boxes :
        LET square == {<<b[1], b[2]>>, <<b[1] + 1, b[2]>>,
                       <<b[1], b[2] + 1>>, <<b[1] + 1, b[2] + 1>>}
        IN square \subseteq boxes /\ square \cap goals = {}

\* some box is the top-left of four boxes in a square, not all on goals
is_2x2_deadlock(boxes, walls, goals) ==
    \E b \in boxes :
        LET square == {<<b[1], b[2]>>, <<b[1] + 1, b[2]>>,
                       <<b[1], b[2] + 1>>, <<b[1] + 1, b[2] + 1>>}
        IN square \subseteq boxes /\ ~(square \subseteq goals)

is_deadlocked(state, puzzle_static) ==
    \/ \E box \in state.boxes : box \in puzzle_static.deadlock_squares
    \/ is_freeze_deadlock(state.boxes, puzzle_static.walls, puzzle_static.goals)
    \/ is_2x2_deadlock(state.boxes, puzzle_static.walls, puzzle_static.goals)

-----------------------------------------------------------------------------
(* solver/heuristic.py *)

\* mutant: the search steps over walls
RECURSIVE GoalBfs_overwalls(_, _, _, _, _, _, _)
GoalBfs_overwalls(frontier, visited, dist, acc, walls, width, height) ==
    IF frontier = {} THEN acc
    ELSE LET new == {n \in {Plus(p, d) : p \in frontier, d \in DirSet} :
                        InBounds(n, width, height) /\ n \notin visited}
         IN GoalBfs_overwalls(new, visited \cup new, dist + 1,
                    acc @@ [p \in frontier |-> dist], walls, width, height)

\* one breadth-first search from a goal: position |-> distance
RECURSIVE GoalBfs(_, _, _, _, _, _, _)
GoalBfs(frontier, visited, dist, acc, walls, width, height) ==
    IF frontier = {} THEN acc
    ELSE LET new == {n \in {Plus(p, d) : p \in frontier, d \in DirSet} :
                        InBounds(n, width, height) /\ n \notin walls /\ n \notin visited}
         IN GoalBfs(new, visited \cup new, dist + 1,
                    acc @@ [p \in frontier |-> dist], walls, width, height)

\* dict (x, y, goal_idx) -> distance for goal_list = list(goals) in the
\* given order; goal_idx is 0-based
precompute_goal_distances_in_order(walls, goal_list, width, height) ==
    LET per == [i \in 1..Len(goal_list) |->
                   GoalBfs({goal_list[i]}, {goal_list[i]}, 0, <<>>, walls, width, height)]
        keys == UNION {{<<p[1], p[2], i - 1>> : p \in DOMAIN per[i]} :
                          i \in 1..Len(goal_list)}
    IN [k \in keys |-> per[k[3] + 1][<<k[1], k[2]>>]]

\* precompute_goal_distances: list(goals) numbers the goals in the iteration
\* order of the frozenset, so the table of every order is a possible return
\* value
precompute_goal_distances(walls, goals, width, height) ==
    {precompute_goal_distances_in_order(walls, goal_list, width, height) :
        goal_list \in Orderings(goals)}

\* mutant: the distance to the farthest goal is taken
BoxMinDist_far(box, num_goals, table) ==
    LET found == {table[<<box[1], box[2], idx>>] :
                     idx \in {i \in 0..(num_goals - 1) :
                                 <<box[1], box[2], i>> \in DOMAIN table}}
    IN IF found = {} THEN Infinity
       ELSE CHOOSE m \in found : \A x \in found : x <= m

\* mutant: the smallest distance of a box counts twice
BoxMinDist_doubled(box, num_goals, table) ==
    LET found == {table[<<box[1], box[2], idx>>] :
                     idx \in {i \in 0..(num_goals - 1) :
                                 <<box[1], box[2], i>> \in DOMAIN table}}
    IN IF found = {} THEN Infinity ELSE 2 * Min(found)

\* min_dist of one box over the goal indices
BoxMinDist(box, num_goals, table) ==
    LET found == {table[<<box[1], box[2], idx>>] :
                     idx \in {i \in 0..(num_goals - 1) :
                                 <<box[1], box[2], i>> \in DOMAIN table}}
    IN IF found = {} THEN Infinity ELSE Min(found)

\* mutant: the sum stops after one box
SumDist_onebox(boxes, num_goals, table) ==
    IF boxes = {} THEN 0
    ELSE BoxMinDist(CHOOSE b \in boxes : TRUE, num_goals, table)

RECURSIVE SumDist(_, _, _)
SumDist(boxes, num_goals, table) ==
    IF boxes = {} THEN 0
    ELSE LET b == CHOOSE b \in boxes : TRUE
         IN BoxMinDist(b, num_goals, table) + SumDist(boxes \ {b}, num_goals, table)

\* mutant: a box with no distance to any goal is left out of the sum
distance_heuristic_skip(boxes, goals, table) ==
    LET num_goals == Cardinality(goals)
    IN SumDist({b \in boxes : BoxMinDist(b, num_goals, table) # Infinity},
               num_goals, table)

distance_heuristic(boxes, goals, table) ==
    LET num_goals == Cardinality(goals)
    IN IF \E b \in boxes : BoxMinDist(b, num_goals, table) = Infinity
       THEN Infinity
       ELSE SumDist(boxes, num_goals, table)

-----------------------------------------------------------------------------
(* solver/astar.py: solve *)

\* the timeout argument of solve, in ticks of the clock
TimeoutArg == 1
\* largest reading of time.time() - start_time the model takes
MaxClock == TimeoutArg + 1

\* mutant: the entry is ordered by g alone
HeapEntry_gonly(f, cnt, g, state, path) ==
    [f |-> g, counter |-> cnt, g |-> g, state |-> state, path |-> path]

HeapEntry(f, cnt, g, state, path) ==
    [f |-> f, counter |-> cnt, g |-> g, state |-> state, path |-> path]

\* heapq.heappop: the least entry in the tuple order, which the first two
\* components (f, counter) decide because counters are unique
HeapMin(heap) ==
    CHOOSE e \in heap : \A o \in heap \ {e} :
        e.f < o.f \/ (e.f = o.f /\ e.counter < o.counter)

\* mutant: the state that was found solved is counted as explored
SuccessResult_counted(solution, explored, t) ==
    [success |-> TRUE, solution |-> solution,
     stats |-> [states_explored |-> explored + 1, time_elapsed |-> t,
                optimal |-> TRUE]]

\* mutant: the solution depends on the reading of the clock
SuccessResult_clocked(solution, explored, t) ==
    [success |-> TRUE, solution |-> IF t = 0 THEN solution ELSE <<"U">>,
     stats |-> [states_explored |-> explored, time_elapsed |-> t, optimal |-> TRUE]]

SuccessResult(solution, explored, t) ==
    [success |-> TRUE, solution |-> solution,
     stats |-> [states_explored |-> explored, time_elapsed |-> t, optimal |-> TRUE]]

\* mutant: a failure of solve without its statistics
FailureResult_nostats(error, reason, explored, t) ==
    [success |-> FALSE, error |-> error, reason |-> reason]

FailureResult(error, reason, explored, t) ==
    [success |-> FALSE, error |-> error, reason |-> reason,
     stats |-> [states_explored |-> explored, time_elapsed |-> t]]

\* the body of "for direction, new_state in moves", from move i on;
\* acc carries open_set, best_g, counter and out (Pending while the loop runs)
RECURSIVE ForMoves(_, _, _, _, _, _, _, _, _)
ForMoves(moves, i, g, path, closed, explored, t, table, acc) ==
    IF i > Len(moves) THEN acc
    ELSE IF Len(moves[i]) > 2
    THEN [acc EXCEPT !.out = ValueError("too many values to unpack (expected 2)")]
    ELSE IF Len(moves[i]) < 2
    THEN [acc EXCEPT !.out = ValueError("not enough values to unpack (expected 2, got "
                                        \o ToString(Len(moves[i])) \o ")")]
    ELSE
      LET direction == moves[i][1]
          new_state == moves[i][2]
          new_g == g + 1
          new_path == Append(path, direction)
      IN IF new_state \in closed
         THEN ForMoves(moves, i + 1, g, path, closed, explored, t, table, acc)
         ELSE IF \E box \in new_state.boxes : box \in static.deadlock_squares
         THEN ForMoves(moves, i + 1, g, path, closed, explored, t, table, acc)
         ELSE IF is_goal_state(new_state, static)
         THEN [acc EXCEPT !.out = SuccessResult(new_path, explored, t)]
         ELSE IF new_state \notin DOMAIN acc.best_g \/ new_g < acc.best_g[new_state]
         THEN LET bg == [s \in DOMAIN acc.best_g \cup {new_state} |->
                            IF s = new_state THEN new_g ELSE acc.best_g[s]]
                  new_h == distance_heuristic(new_state.boxes, static.goals, table)
              IN IF new_h < Infinity
                 THEN ForMoves(moves, i + 1, g, path, closed, explored, t, table,
                          [acc EXCEPT !.best_g = bg,
                                      !.counter = acc.counter + 1,
                                      !.open_set = acc.open_set \cup
                                          {HeapEntry(new_g + new_h, acc.counter + 1,
                                                     new_g, new_state, new_path)}])
                 ELSE ForMoves(moves, i + 1, g, path, closed, explored, t, table,
                          [acc EXCEPT !.best_g = bg])
         ELSE ForMoves(moves, i + 1, g, path, closed, explored, t, table, acc)

-----------------------------------------------------------------------------
(* solver/astar.py: solve_puzzle *)

InvalidPuzzle(error) ==
    [success |-> FALSE, error |-> error, reason |-> "invalid_puzzle"]

\* mutant: an exception of solve is reported with a fixed message
Wrap_fixedmsg(out, elements) ==
    IF IsRaise(out) THEN InvalidPuzzle("Internal error")
    ELSE out @@ [initial_state |-> [player |-> elements.player,
                                    boxes |-> elements.boxes,
                                    goals |-> elements.goals]]

\* mutant: the initial state is not added to the result of solve
Wrap_bare(out, elements) ==
    IF IsRaise(out) THEN InvalidPuzzle(out.msg) ELSE out

\* what solve_puzzle makes of the outcome of its call of solve
Wrap(out, elements) ==
    IF IsRaise(out) THEN InvalidPuzzle(out.msg)
    ELSE out @@ [initial_state |-> [player |-> elements.player,
                                    boxes |-> elements.boxes,
                                    goals |-> elements.goals]]

Elements == extract_elements(parse_puzzle_string(puzzle_string))

\* mutant: the box count is not compared with the goal count
Validate_nocount(grid, elements) ==
    IF grid = <<>> THEN "Empty puzzle"
    ELSE IF elements.player = None THEN "No player found in puzzle"
    ELSE IF elements.boxes = {} THEN "No boxes found in puzzle"
    ELSE IF elements.goals = {} THEN "No goals found in puzzle"
    ELSE ""

\* the checks of solve_puzzle before it builds the puzzle: the error
\* message of the first check that fails, "" when all pass
Validate(grid, elements) ==
    IF grid = <<>> THEN "Empty puzzle"
    ELSE IF elements.player = None THEN "No player found in puzzle"
    ELSE IF elements.boxes = {} THEN "No boxes found in puzzle"
    ELSE IF elements.goals = {} THEN "No goals found in puzzle"
    ELSE IF Cardinality(elements.boxes) # Cardinality(elements.goals)
    THEN "Box count (" \o ToString(Cardinality(elements.boxes))
             \o ") != goal count (" \o ToString(Cardinality(elements.goals)) \o ")"
    ELSE ""

\* solve_puzzle up to its call of solve
SolvePuzzleBegin ==
    /\ pc = "solve_puzzle"
    /\ LET grid == parse_puzzle_string(puzzle_string)
           elements == extract_elements(grid)
           invalid == Validate(grid, elements)
       IN IF invalid # ""
          THEN /\ result' = InvalidPuzzle(invalid)
               /\ pc' = "done"
               /\ UNCHANGED <<static, initial_state>>
          ELSE /\ static' = [from_elements(elements) EXCEPT !.deadlock_squares =
                                compute_static_deadlocks(elements.walls, elements.goals,
                                    elements.width, elements.height)]
               /\ initial_state' = State(elements.player, elements.boxes)
               /\ pc' = "solve"
               /\ UNCHANGED result
    /\ UNCHANGED <<puzzle_string, max_states, goal_distances, open_set, closed_set,
                   best_g, counter, states_explored, solve_out, cur_state, last_op>>

\* solve returns or raises out, and solve_puzzle returns
Return(out) ==
    /\ solve_out' = out
    /\ result' = Wrap(out, Elements)
    /\ pc' = "done"

\* solve from its entry to the first test of the while loop
SolveBegin ==
    /\ pc = "solve"
    /\ \E table \in precompute_goal_distances(static.walls, static.goals,
                          static.width, static.height) :
       LET h == distance_heuristic(initial_state.boxes, static.goals, table)
       IN /\ goal_distances' = table
          /\ IF is_goal_state(initial_state, static)
             THEN /\ \E t \in 0..MaxClock : Return(SuccessResult(<<>>, 0, t))
                  /\ UNCHANGED <<open_set, closed_set, best_g, counter, states_explored>>
             ELSE IF h = Infinity
             THEN /\ \E t \in 0..MaxClock :
                        Return(FailureResult("No solution found", "unsolvable", 0, t))
                  /\ UNCHANGED <<open_set, closed_set, best_g, counter, states_explored>>
             ELSE /\ open_set' = {HeapEntry(h, 0, 0, initial_state, <<>>)}
                  /\ closed_set' = {}
                  /\ best_g' = [s \in {initial_state} |-> 0]
                  /\ counter' = 0
                  /\ states_explored' = 0
                  /\ pc' = "loop"
                  /\ UNCHANGED <<solve_out, result>>
    /\ UNCHANGED <<puzzle_string, max_states, static, initial_state, cur_state, last_op>>

\* the loop test finds open_set non-empty and the elapsed time beyond timeout
LoopTimeout ==
    /\ pc = "loop"
    /\ open_set # {}
    /\ \E elapsed \in 0..MaxClock :
         /\ elapsed > TimeoutArg
         /\ Return(FailureResult("Search terminated: timeout reached", "timeout",
                                 states_explored, elapsed))
    /\ UNCHANGED <<puzzle_string, max_states, static, initial_state, goal_distances,
                   open_set, closed_set, best_g, counter, states_explored,
                   cur_state, last_op>>

\* mutant: reaching max_states is reported as unsolvable
LoopMaxStates_unsolvable ==
    /\ pc = "loop"
    /\ open_set # {}
    /\ states_explored >= max_states
    /\ \E elapsed \in 0..TimeoutArg : \E t \in elapsed..MaxClock :
         Return(FailureResult("No solution exists", "unsolvable",
                              states_explored, t))
    /\ UNCHANGED <<puzzle_string, max_states, static, initial_state, goal_distances,
                   open_set, closed_set, best_g, counter, states_explored,
                   cur_state, last_op>>

\* the elapsed time is within timeout and states_explored has reached
\* max_states; the clock is read again for the result
LoopMaxStates ==
    /\ pc = "loop"
    /\ open_set # {}
    /\ states_explored >= max_states
    /\ \E elapsed \in 0..TimeoutArg : \E t \in elapsed..MaxClock :
         Return(FailureResult("Search terminated: max states reached", "timeout",
                              states_explored, t))
    /\ UNCHANGED <<puzzle_string, max_states, static, initial_state, goal_distances,
                   open_set, closed_set, best_g, counter, states_explored,
                   cur_state, last_op>>

\* mutant: a finalized state is not counted in states_explored
LoopPop_uncounted ==
    /\ pc = "loop"
    /\ open_set # {}
    /\ states_explored < max_states
    /\ LET top == HeapMin(open_set)
           rest == open_set \ {top}
       IN IF top.state \in closed_set
          THEN /\ open_set' = rest
               /\ UNCHANGED <<closed_set, states_explored, best_g, counter,
                              solve_out, result, pc>>
          ELSE \E t \in 0..MaxClock :
               \E moves \in generate_moves(top.state, static) :
               LET closed == closed_set \cup {top.state}
                   explored == states_explored
                   acc == ForMoves(moves, 1, top.g, top.path, closed, explored, t,
                              goal_distances,
                              [open_set |-> rest, best_g |-> best_g,
                               counter |-> counter, out |-> Pending])
               IN /\ closed_set' = closed
                  /\ states_explored' = explored
                  /\ open_set' = acc.open_set
                  /\ best_g' = acc.best_g
                  /\ counter' = acc.counter
                  /\ IF IsPending(acc.out)
                     THEN UNCHANGED <<solve_out, result, pc>>
                     ELSE Return(acc.out)
    /\ UNCHANGED <<puzzle_string, max_states, static, initial_state, goal_distances,
                   cur_state, last_op>>

\* mutant: the loop pops without testing states_explored against max_states
LoopPop_uncapped ==
    /\ pc = "loop"
    /\ open_set # {}
    /\ LET top == HeapMin(open_set)
           rest == open_set \ {top}
       IN IF top.state \in closed_set
          THEN /\ open_set' = rest
               /\ UNCHANGED <<closed_set, states_explored, best_g, counter,
                              solve_out, result, pc>>
          ELSE \E t \in 0..MaxClock :
               \E moves \in generate_moves(top.state, static) :
               LET closed == closed_set \cup {top.state}
                   explored == states_explored + 1
                   acc == ForMoves(moves, 1, top.g, top.path, closed, explored, t,
                              goal_distances,
                              [open_set |-> rest, best_g |-> best_g,
                               counter |-> counter, out |-> Pending])
               IN /\ closed_set' = closed
                  /\ states_explored' = explored
                  /\ open_set' = acc.open_set
                  /\ best_g' = acc.best_g
                  /\ counter' = acc.counter
                  /\ IF IsPending(acc.out)
                     THEN UNCHANGED <<solve_out, result, pc>>
                     ELSE Return(acc.out)
    /\ UNCHANGED <<puzzle_string, max_states, static, initial_state, goal_distances,
                   cur_state, last_op>>

\* mutant: the state of the popped entry is neither finalized nor counted and
\* the entry is pushed back with a fresh counter
LoopPop_again ==
    /\ pc = "loop"
    /\ open_set # {}
    /\ states_explored < max_states
    /\ LET top == HeapMin(open_set)
           rest == open_set \ {top}
       IN IF top.state \in closed_set
          THEN /\ open_set' = rest
               /\ UNCHANGED <<closed_set, states_explored, best_g, counter,
                              solve_out, result, pc>>
          ELSE \E t \in 0..MaxClock :
               \E moves \in generate_moves(top.state, static) :
               LET closed == closed_set
                   explored == states_explored
                   acc == ForMoves(moves, 1, top.g, top.path, closed, explored, t,
                              goal_distances,
                              [open_set |-> rest \cup {HeapEntry(top.f, counter + 1, top.g,
                                                  top.state, top.path)},
                               best_g |-> best_g,
                               counter |-> counter + 1, out |-> Pending])
               IN /\ closed_set' = closed
                  /\ states_explored' = explored
                  /\ open_set' = acc.open_set
                  /\ best_g' = acc.best_g
                  /\ counter' = acc.counter
                  /\ IF IsPending(acc.out)
                     THEN UNCHANGED <<solve_out, result, pc>>
                     ELSE Return(acc.out)
    /\ UNCHANGED <<puzzle_string, max_states, static, initial_state, goal_distances,
                   cur_state, last_op>>

\* one iteration of the while loop that passes both budget tests
LoopPop ==
    /\ pc = "loop"
    /\ open_set # {}
    /\ states_explored < max_states
    /\ LET top == HeapMin(open_set)
           rest == open_set \ {top}
       IN IF top.state \in closed_set
          THEN /\ open_set' = rest
               /\ UNCHANGED <<closed_set, states_explored, best_g, counter,
                              solve_out, result, pc>>
          ELSE \E t \in 0..MaxClock :
               \E moves \in generate_moves(top.state, static) :
               LET closed == closed_set \cup {top.state}
                   explored == states_explored + 1
                   acc == ForMoves(moves, 1, top.g, top.path, closed, explored, t,
                              goal_distances,
                              [open_set |-> rest, best_g |-> best_g,
                               counter |-> counter, out |-> Pending])
               IN /\ closed_set' = closed
                  /\ states_explored' = explored
                  /\ open_set' = acc.open_set
                  /\ best_g' = acc.best_g
                  /\ counter' = acc.counter
                  /\ IF IsPending(acc.out)
                     THEN UNCHANGED <<solve_out, result, pc>>
                     ELSE Return(acc.out)
    /\ UNCHANGED <<puzzle_string, max_states, static, initial_state, goal_distances,
                   cur_state, last_op>>

\* the loop test finds open_set empty
LoopExhausted ==
    /\ pc = "loop"
    /\ open_set = {}
    /\ \E t \in 0..MaxClock :
         Return(FailureResult("No solution exists", "unsolvable", states_explored, t))
    /\ UNCHANGED <<puzzle_string, max_states, static, initial_state, goal_distances,
                   open_set, closed_set, best_g, counter, states_explored,
                   cur_state, last_op>>

-----------------------------------------------------------------------------
(* The puzzle texts given to solve_puzzle *)

Cells == (0..(GridW - 1)) \X (0..(GridH - 1))

SubsetsUpTo(S, k) == {T \in SUBSET S : Cardinality(T) <= k}

\* the character of the text format for one cell
CharAt(p, walls, boxes, goals, player) ==
    IF p \in walls THEN "#"
    ELSE IF p = player THEN (IF p \in goals THEN "+" ELSE "@")
    ELSE IF p \in boxes THEN (IF p \in goals THEN "*" ELSE "$")
    ELSE IF p \in goals THEN "."
    ELSE " "

\* h rows of w characters, joined by newlines
RenderGrid(w, h, walls, boxes, goals, player) ==
    [k \in 1..(h * (w + 1) - 1) |->
        IF k % (w + 1) = 0 THEN "\n"
        ELSE CharAt(<<(k % (w + 1)) - 1, k \div (w + 1)>>,
                    walls, boxes, goals, player)]

\* GridH rows of GridW characters
Render(walls, boxes, goals, player) ==
    RenderGrid(GridW, GridH, walls, boxes, goals, player)

Idle ==
    /\ initial_state = State(None, {})
    /\ goal_distances = <<>>
    /\ open_set = {}
    /\ closed_set = {}
    /\ best_g = <<>>
    /\ counter = 0
    /\ states_explored = 0
    /\ solve_out = Pending
    /\ result = Pending

Init ==
    /\ \E walls \in SubsetsUpTo(Cells, MaxWalls) :
       \E boxes \in SubsetsUpTo(Cells \ walls, MaxBoxes) :
       \E goals \in SubsetsUpTo(Cells \ walls, MaxGoals) :
       \E player \in (Cells \ (walls \cup boxes)) \cup {None} :
           puzzle_string = Render(walls, boxes, goals, player)
    /\ max_states \in 0..MaxStatesArg
    /\ pc = "solve_puzzle"
    /\ static = PuzzleStatic({}, {}, 0, 0, {})
    /\ Idle
    /\ cur_state = State(None, {})
    /\ last_op = [op |-> "none"]

Next ==
    \/ SolvePuzzleBegin
    \/ SolveBegin
    \/ LoopTimeout
    \/ LoopMaxStates
    \/ LoopPop
    \/ LoopExhausted

Spec == Init /\ [][Next]_vars

-----------------------------------------------------------------------------
(* solve_puzzle on well-formed puzzles with walls enough to make corners *)

CornerW == 3
CornerH == 3
CornerWalls == 2
CornerBoxes == 1

CornerCells == (0..(CornerW - 1)) \X (0..(CornerH - 1))

CornerInit ==
    /\ \E walls \in SubsetsUpTo(CornerCells, CornerWalls) :
       \E boxes \in SubsetsUpTo(CornerCells \ walls, CornerBoxes) \ {{}} :
       \E goals \in SubsetsUpTo(CornerCells \ walls, CornerBoxes) :
       \E player \in CornerCells \ (walls \cup boxes) :
           /\ Cardinality(goals) = Cardinality(boxes)
           /\ puzzle_string = RenderGrid(CornerW, CornerH, walls, boxes, goals, player)
    /\ max_states \in 0..MaxStatesArg
    /\ pc = "solve_puzzle"
    /\ static = PuzzleStatic({}, {}, 0, 0, {})
    /\ Idle
    /\ cur_state = State(None, {})
    /\ last_op = [op |-> "none"]

CornerSpec == CornerInit /\ [][Next]_vars

-----------------------------------------------------------------------------
(* Move specification: generate_moves and apply_move called on the states  *)
(* of a puzzle, starting from any well-formed initial position and going   *)
(* on from the states the two functions return.                            *)

\* width and height of the grids of the move specification
PlayW == 3
PlayH == 3
\* most boxes and most walls on such a grid
PlayBoxes == 2
PlayWalls == 1

PlayCells == (0..(PlayW - 1)) \X (0..(PlayH - 1))

\* the moves never read the goals: they are placed on the top row only
PlayGoalCells == {p \in PlayCells : p[2] = 0}

MovesInit ==
    /\ \E walls \in SubsetsUpTo(PlayCells, PlayWalls) :
       \E boxes \in SubsetsUpTo(PlayCells \ walls, PlayBoxes) \ {{}} :
       \E goals \in {g \in SUBSET (PlayGoalCells \ walls) :
                        Cardinality(g) = Cardinality(boxes)} :
       \E player \in PlayCells \ (walls \cup boxes) :
           /\ static = PuzzleStatic(walls, goals, PlayW, PlayH,
                           compute_static_deadlocks(walls, goals, PlayW, PlayH))
           /\ cur_state = State(player, boxes)
    /\ last_op = [op |-> "none"]
    /\ pc = "moves"
    /\ puzzle_string = <<>>
    /\ max_states = 0
    /\ Idle

\* generate_moves is called on the current state
GenerateMoves ==
    /\ pc = "moves"
    /\ \E moves \in generate_moves(cur_state, static) :
          /\ last_op' = [op |-> "generate_moves", state |-> cur_state, moves |-> moves]
          /\ \/ \E k \in 1..Len(moves) : cur_state' = moves[k][2]
             \/ moves = <<>> /\ cur_state' = cur_state
    /\ pc' = "moved"
    /\ UNCHANGED <<puzzle_string, max_states, static, initial_state, goal_distances,
                   open_set, closed_set, best_g, counter, states_explored, solve_out,
                   result>>

\* apply_move is called on the current state with a direction
ApplyMove ==
    /\ pc = "moves"
    /\ \E direction \in DirSet :
       \E out \in apply_move(cur_state, direction, static) :
          /\ last_op' = [op |-> "apply_move", state |-> cur_state,
                         direction |-> direction, out |-> out]
          /\ cur_state' = IF IsRaise(out) THEN cur_state ELSE out
    /\ pc' = "moved"
    /\ UNCHANGED <<puzzle_string, max_states, static, initial_state, goal_distances,
                   open_set, closed_set, best_g, counter, states_explored, solve_out,
                   result>>

\* the caller goes on from the state it now holds
Continue ==
    /\ pc = "moved"
    /\ pc' = "moves"
    /\ last_op' = [op |-> "none"]
    /\ UNCHANGED <<puzzle_string, max_states, static, initial_state, goal_distances,
                   open_set, closed_set, best_g, counter, states_explored, solve_out,
                   result, cur_state>>

MovesNext == GenerateMoves \/ ApplyMove \/ Continue

MovesSpec == MovesInit /\ [][MovesNext]_vars

-----------------------------------------------------------------------------
(* The deadlock tests and the moves on grids with corners *)

\* width and height of the grids, most boxes and most walls
DlW == 3
DlH == 3
DlBoxes == 3
DlWalls == 2

DlCells == (0..(DlW - 1)) \X (0..(DlH - 1))

\* the walls are taken among the two neighbours of the top-left square:
\* together they make a corner of that square and of the square at (1, 1)
DlWallCells == {<<1, 0>>, <<0, 1>>}

\* the goals are placed on the top two rows
DlGoalCells == {p \in DlCells : p[2] <= 1}

DeadlockInit ==
    /\ \E walls \in SubsetsUpTo(DlWallCells, DlWalls) :
       \E boxes \in SubsetsUpTo(DlCells \ walls, DlBoxes) \ {{}} :
       \E goals \in {g \in SUBSET (DlGoalCells \ walls) :
                        Cardinality(g) = Cardinality(boxes)} :
       \E player \in DlCells \ (walls \cup boxes) :
           /\ static = PuzzleStatic(walls, goals, DlW, DlH,
                           compute_static_deadlocks(walls, goals, DlW, DlH))
           /\ cur_state = State(player, boxes)
    /\ last_op = [op |-> "none"]
    /\ pc = "moves"
    /\ puzzle_string = <<>>
    /\ max_states = 0
    /\ Idle

\* is_deadlocked is called on the current state
IsDeadlocked ==
    /\ pc = "moves"
    /\ last_op' = [op |-> "is_deadlocked", state |-> cur_state,
                   out |-> is_deadlocked(cur_state, static)]
    /\ pc' = "moved"
    /\ UNCHANGED <<puzzle_string, max_states, static, initial_state, goal_distances,
                   open_set, closed_set, best_g, counter, states_explored, solve_out,
                   result, cur_state>>

DeadlockNext == IsDeadlocked \/ GenerateMoves \/ Continue

DeadlockSpec == DeadlockInit /\ [][DeadlockNext]_vars

-----------------------------------------------------------------------------
(* The distance table, the heuristic and the reachability search, called
   on grids of the same size *)

\* up to three boxes, with goals on the top row and the centre square
HeurBoxes == 3
HeurGoalCells == {<<0, 0>>, <<1, 0>>, <<2, 0>>, <<1, 1>>}

HeuristicInit ==
    /\ \E walls \in SubsetsUpTo(DlWallCells, DlWalls) :
       \E boxes \in SubsetsUpTo(DlCells \ walls, HeurBoxes) \ {{}} :
       \E goals \in {g \in SUBSET (HeurGoalCells \ walls) :
                        Cardinality(g) = Cardinality(boxes)} :
       \E player \in DlCells \ (walls \cup boxes) :
           /\ static = PuzzleStatic(walls, goals, DlW, DlH,
                           compute_static_deadlocks(walls, goals, DlW, DlH))
           /\ cur_state = State(player, boxes)
    /\ last_op = [op |-> "none"]
    /\ pc = "heuristic"
    /\ puzzle_string = <<>>
    /\ max_states = 0
    /\ Idle

\* precompute_goal_distances is called for the grid
Precompute ==
    /\ pc = "heuristic"
    /\ goal_distances' \in precompute_goal_distances(static.walls, static.goals,
                               static.width, static.height)
    /\ pc' = "table"
    /\ UNCHANGED <<puzzle_string, max_states, static, initial_state, open_set,
                   closed_set, best_g, counter, states_explored, solve_out, result,
                   cur_state, last_op>>

\* distance_heuristic is called on the boxes of the state with the table
Heuristic ==
    /\ pc = "table"
    /\ last_op' = [op |-> "distance_heuristic", boxes |-> cur_state.boxes,
                   h |-> distance_heuristic(cur_state.boxes, static.goals,
                                            goal_distances)]
    /\ pc' = "h"
    /\ UNCHANGED <<puzzle_string, max_states, static, initial_state, goal_distances,
                   open_set, closed_set, best_g, counter, states_explored, solve_out,
                   result, cur_state>>

\* get_reachable_positions is called on the state
Reachable ==
    /\ pc = "heuristic"
    /\ last_op' = [op |-> "get_reachable_positions", state |-> cur_state,
                   out |-> get_reachable_positions(cur_state.player_pos,
                               cur_state.boxes, static.walls, static.width,
                               static.height)]
    /\ pc' = "reach"
    /\ UNCHANGED <<puzzle_string, max_states, static, initial_state, goal_distances,
                   open_set, closed_set, best_g, counter, states_explored, solve_out,
                   result, cur_state>>

HeuristicNext == Precompute \/ Heuristic \/ Reachable

HeuristicSpec == HeuristicInit /\ [][HeuristicNext]_vars

-----------------------------------------------------------------------------
(* web/app.py: the handler of POST /api/solve *)

\* width and height of the puzzles posted
WebW == 3
WebH == 1

\* the default of max_states when the request has none
DefaultMaxStates == 10000000

WebCells == (0..(WebW - 1)) \X (0..(WebH - 1))

\* a JSON object with the fields named in has
JsonObject(has, puzzle, ms) ==
    [kind |-> "object", has |-> has, puzzle |-> puzzle, max_states |-> ms]

\* the JSON value null
JsonNull == [kind |-> "null"]

\* data.get(key, default)
Get(data, key, default) == IF key \in data.has THEN data[key] ELSE default

\* jsonify(body), status
Response(data, status, body) ==
    [op |-> "api_solve", data |-> data, status |-> status, body |-> body]

\* the puzzle text comes as rendered, or between a first line holding a tab
\* and a last line holding a carriage return
WebInit ==
    /\ \/ last_op = [op |-> "request", data |-> JsonNull]
       \/ \E has \in SUBSET {"puzzle", "max_states"} :
          \E ms \in 0..MaxStatesArg :
             \/ last_op = [op |-> "request", data |-> JsonObject(has, <<>>, ms)]
             \/ \E walls \in SubsetsUpTo(WebCells, MaxWalls) :
                \E boxes \in SubsetsUpTo(WebCells \ walls, MaxBoxes) :
                \E goals \in SubsetsUpTo(WebCells \ walls, MaxGoals) :
                \E player \in (WebCells \ (walls \cup boxes)) \cup {None} :
                \E frame \in {<<<<>>, <<>>>>, <<<<"\t", "\n">>, <<"\n", "\r">>>>} :
                    last_op = [op |-> "request",
                               data |-> JsonObject(has,
                                   frame[1]
                                     \o RenderGrid(WebW, WebH, walls, boxes, goals, player)
                                     \o frame[2],
                                   ms)]
    /\ pc = "api_solve"
    /\ puzzle_string = <<>>
    /\ max_states = 0
    /\ static = PuzzleStatic({}, {}, 0, 0, {})
    /\ Idle
    /\ cur_state = State(None, {})

\* the handler up to its call of solve_puzzle
ApiSolveBegin ==
    /\ pc = "api_solve"
    /\ LET data == last_op.data
       IN IF data.kind = "null"
          THEN /\ last_op' = Response(data, 500,
                     [success |-> FALSE,
                      error |-> "'NoneType' object has no attribute 'get'",
                      reason |-> "server_error"])
               /\ pc' = "responded"
               /\ UNCHANGED <<puzzle_string, max_states>>
          ELSE IF Get(data, "puzzle", None) = <<>>
          THEN /\ last_op' = Response(data, 400,
                     [success |-> FALSE, error |-> "No puzzle provided"])
               /\ pc' = "responded"
               /\ UNCHANGED <<puzzle_string, max_states>>
          ELSE /\ puzzle_string' = Get(data, "puzzle", None)
               /\ max_states' = Get(data, "max_states", DefaultMaxStates)
               /\ pc' = "solve_puzzle"
               /\ UNCHANGED last_op
    /\ UNCHANGED <<static, initial_state, goal_distances, open_set, closed_set,
                   best_g, counter, states_explored, solve_out, result, cur_state>>

\* the handler after solve_puzzle has returned
ApiSolveRespond ==
    /\ pc = "done"
    /\ last_op.op = "request"
    /\ LET missing == {"solution", "stats", "initial_state"} \ DOMAIN result
       IN last_op' =
            IF result.success /\ missing # {}
            THEN Response(last_op.data, 500,
                     [success |-> FALSE,
                      error |-> IF "solution" \in missing THEN "'solution'"
                                ELSE IF "stats" \in missing THEN "'stats'"
                                ELSE "'initial_state'",
                      reason |-> "server_error"])
            ELSE IF result.success
            THEN Response(last_op.data, 200,
                     [success |-> TRUE, solution |-> result.solution,
                      moves |-> result.solution, length |-> Len(result.solution),
                      stats |-> result.stats, initial_state |-> result.initial_state,
                      pushed_boxes |-> <<>>])
            ELSE Response(last_op.data, 200,
                     [success |-> FALSE,
                      error |-> IF "error" \in DOMAIN result THEN result.error
                                ELSE "Unknown error",
                      reason |-> IF "reason" \in DOMAIN result THEN result.reason
                                 ELSE "unknown",
                      stats |-> IF "stats" \in DOMAIN result THEN result.stats
                                ELSE <<>>])
    /\ pc' = "responded"
    /\ UNCHANGED <<puzzle_string, max_states, static, initial_state, goal_distances,
                   open_set, closed_set, best_g, counter, states_explored, solve_out,
                   result, cur_state>>

WebNext == ApiSolveBegin \/ Next \/ ApiSolveRespond

WebSpec == WebInit /\ [][WebNext]_vars

-----------------------------------------------------------------------------
(* solve_puzzle with budgets the search cannot reach: the clock never passes
   timeout and max_states is the default of solve *)

TermInit ==
    /\ \E walls \in SubsetsUpTo(Cells, MaxWalls) :
       \E boxes \in SubsetsUpTo(Cells \ walls, MaxBoxes) :
       \E goals \in SubsetsUpTo(Cells \ walls, MaxGoals) :
       \E player \in (Cells \ (walls \cup boxes)) \cup {None} :
           puzzle_string = Render(walls, boxes, goals, player)
    /\ max_states = DefaultMaxStates
    /\ pc = "solve_puzzle"
    /\ static = PuzzleStatic({}, {}, 0, 0, {})
    /\ Idle
    /\ cur_state = State(None, {})
    /\ last_op = [op |-> "none"]

TermNext ==
    \/ SolvePuzzleBegin
    \/ SolveBegin
    \/ LoopPop
    \/ LoopExhausted

\* the interpreter keeps running the call: a step that can be taken is taken
TermSpec == TermInit /\ [][TermNext]_vars /\ WF_vars(TermNext)

-----------------------------------------------------------------------------
(* is_deadlocked called on solved states: every box on a goal and every goal
   under a box, up to five boxes on the 3x3 grid of DeadlockSpec *)

SolvedBoxes == 5

SolvedInit ==
    /\ \E walls \in SubsetsUpTo(DlWallCells, DlWalls) :
       \E boxes \in SubsetsUpTo(DlCells \ walls, SolvedBoxes) \ {{}} :
       \E player \in DlCells \ (walls \cup boxes) :
           /\ static = PuzzleStatic(walls, boxes, DlW, DlH,
                           compute_static_deadlocks(walls, boxes, DlW, DlH))
           /\ cur_state = State(player, boxes)
    /\ last_op = [op |-> "none"]
    /\ pc = "moves"
    /\ puzzle_string = <<>>
    /\ max_states = 0
    /\ Idle

SolvedNext == IsDeadlocked

SolvedSpec == SolvedInit /\ [][SolvedNext]_vars

-----------------------------------------------------------------------------
(* is_2x2_deadlock called on box sets of up to five boxes of a 3x3 grid *)

SqW == 3
SqH == 3
SqBoxes == 5

SqCells == (0..(SqW - 1)) \X (0..(SqH - 1))

\* goals lie in the two upper rows, which hold two whole 2x2 squares
SqGoalCells == {p \in SqCells : p[2] <= 1}

SqWallCells == {<<2, 2>>}

SquareInit ==
    /\ \E walls \in SUBSET SqWallCells :
       \E boxes \in SubsetsUpTo(SqCells \ walls, SqBoxes) \ {{}} :
       \E goals \in SUBSET SqGoalCells :
           last_op = [op |-> "input", boxes |-> boxes, walls |-> walls,
                      goals |-> goals]
    /\ pc = "square"
    /\ puzzle_string = <<>>
    /\ max_states = 0
    /\ static = PuzzleStatic({}, {}, 0, 0, {})
    /\ cur_state = State(None, {})
    /\ Idle

\* is_2x2_deadlock is called on the box set
Is2x2Deadlock ==
    /\ pc = "square"
    /\ last_op' = [op |-> "is_2x2_deadlock", boxes |-> last_op.boxes,
                   walls |-> last_op.walls, goals |-> last_op.goals,
                   out |-> is_2x2_deadlock(last_op.boxes, last_op.walls,
                                           last_op.goals)]
    /\ pc' = "squared"
    /\ UNCHANGED <<puzzle_string, max_states, static, initial_state, goal_distances,
                   open_set, closed_set, best_g, counter, states_explored, solve_out,
                   result, cur_state>>

SquareNext == Is2x2Deadlock

SquareSpec == SquareInit /\ [][SquareNext]_vars

-----------------------------------------------------------------------------
(* The rules of the game, stated on their own for the properties below *)

\* the entries of generate_moves(state) as one list; which entries there are
\* does not depend on the order the boxes are visited in
RefMoves(state, st) == generate_moves_in_order(state, st, RefRowMajor(state.boxes))

RefStep(p) == {<<p[1], p[2] - 1>>, <<p[1], p[2] + 1>>, <<p[1] - 1, p[2]>>, <<p[1] + 1, p[2]>>}

RefFree(st, state) ==
    {p \in (0..(st.width - 1)) \X (0..(st.height - 1)) :
        p \notin st.walls /\ p \notin state.boxes}

\* the squares the player walks to in at most n steps over free squares
RECURSIVE RefWalk(_, _, _)
RefWalk(from, free, n) ==
    IF n = 0 THEN from
    ELSE RefWalk(from \cup (UNION {RefStep(p) : p \in from} \cap free), free, n - 1)

RefReach(st, state) ==
    RefWalk({state.player_pos}, RefFree(st, state), st.width * st.height)

RefDest(b, d) ==
    CASE d = "U" -> <<b[1], b[2] - 1>>
      [] d = "D" -> <<b[1], b[2] + 1>>
      [] d = "L" -> <<b[1] - 1, b[2]>>
      [] d = "R" -> <<b[1] + 1, b[2]>>

RefStand(b, d) ==
    CASE d = "U" -> <<b[1], b[2] + 1>>
      [] d = "D" -> <<b[1], b[2] - 1>>
      [] d = "L" -> <<b[1] + 1, b[2]>>
      [] d = "R" -> <<b[1] - 1, b[2]>>

\* the (box, direction) pairs of the legal pushes of a state
RefLegal(st, state) ==
    LET reach == RefReach(st, state)
    IN {bd \in state.boxes \X DirSet :
           /\ RefStand(bd[1], bd[2]) \in reach
           /\ RefDest(bd[1], bd[2]) \in (0..(st.width - 1)) \X (0..(st.height - 1))
           /\ RefDest(bd[1], bd[2]) \notin st.walls
           /\ RefDest(bd[1], bd[2]) \notin state.boxes}

RefPush(state, b, d) ==
    [player_pos |-> b, boxes |-> (state.boxes \ {b}) \cup {RefDest(b, d)}]

RefSucc(st, state) == {RefPush(state, bd[1], bd[2]) : bd \in RefLegal(st, state)}

\* the least number of legal pushes from a state of frontier to a state
\* with boxes = goals, counted from depth; -1 when there is none
RECURSIVE RefBfs(_, _, _, _)
RefBfs(st, frontier, seen, depth) ==
    IF \E s \in frontier : s.boxes = st.goals THEN depth
    ELSE IF frontier = {} THEN -1
    ELSE LET next == UNION {RefSucc(st, s) : s \in frontier} \ seen
         IN RefBfs(st, next, seen \cup next, depth + 1)

MinPushes(st, state) == RefBfs(st, {state}, {state}, 0)

SolveReturned == ~IsPending(solve_out) /\ ~IsRaise(solve_out)

SolveSucceeded == SolveReturned /\ solve_out.success

\* every state apply_move may end in when the directions of path are
\* applied one after the other; a raise ends the replay
RECURSIVE ReplayAll(_, _, _)
ReplayAll(S, path, st) ==
    IF path = <<>> THEN S
    ELSE ReplayAll(UNION {IF IsRaise(s) THEN {s} ELSE apply_move(s, Head(path), st) :
                             s \in S},
                   Tail(path), st)

-----------------------------------------------------------------------------
(* Properties *)

\* C1: whenever solve returns success, the length of the solution is the
\* least number of legal pushes from the initial state to boxes = goals.
C1_Optimal ==
    SolveSucceeded =>
        Len(solve_out.solution) = MinPushes(static, initial_state)

\* solve has returned success (the successes the code reaches are those of
\* puzzles that start solved)
C1_Witness ==
    /\ SolveSucceeded
    /\ MinPushes(static, initial_state) = Len(solve_out.solution)
    /\ solve_out.stats.states_explored = 0

\* C2: a puzzle from which some sequence of legal pushes reaches
\* boxes = goals, and whose search is not cut by the time or state budget,
\* ends with solve returning success: never unsolvable, never an error.
C2_Complete ==
    (/\ pc = "done"
     /\ ~IsPending(solve_out)
     /\ MinPushes(static, initial_state) >= 0
     /\ ~(SolveReturned /\ ~solve_out.success /\ solve_out.reason = "timeout"))
        => SolveSucceeded

\* C3: whenever solve returns unsolvable, no sequence of legal pushes from
\* the initial state reaches boxes = goals.
C3_UnsolvableSound ==
    (SolveReturned /\ ~solve_out.success /\ solve_out.reason = "unsolvable")
        => MinPushes(static, initial_state) = -1

\* unsolvable returned by the pre-check, a box being walled off from the goals
C3_WitnessPrecheck ==
    /\ SolveReturned /\ ~solve_out.success /\ solve_out.reason = "unsolvable"
    /\ solve_out.stats.states_explored = 0

\* C4: replaying the solution of a successful solve with apply_move, from
\* the initial state, ends with boxes = goals in whichever order apply_move
\* goes through the boxes.
C4_Replay ==
    SolveSucceeded =>
        \A end \in ReplayAll({initial_state}, solve_out.solution, static) :
            ~IsRaise(end) /\ end.boxes = static.goals

\* a successful solve of a puzzle with two boxes, replayed
C4_Witness ==
    /\ SolveSucceeded
    /\ Cardinality(initial_state.boxes) = 2
    /\ ReplayAll({initial_state}, solve_out.solution, static) # {}

\* C5: apply_move pushes the unique box whose push in the direction is
\* legal: at most one box is legal for a state and a direction, so the
\* state returned depends on the state and the direction alone.
C5_UniqueBox ==
    last_op.op = "apply_move" =>
        /\ Cardinality({bd \in RefLegal(static, last_op.state) :
                           bd[2] = last_op.direction}) <= 1
        /\ Cardinality(apply_move(last_op.state, last_op.direction, static)) = 1

\* C6: every element of the list of generate_moves is a pair, and the loop
\* of solve that unpacks each into two names runs without raising.
C6_Pairs ==
    /\ \A e \in open_set :
          \A moves \in generate_moves(e.state, static) :
              \A k \in 1..Len(moves) : Len(moves[k]) = 2
    /\ ~IsRaise(solve_out)

\* C7: generate_moves returns one move for box b and direction d exactly
\* when b - d is reachable by the player and b + d is inside the grid and
\* neither a wall nor a box.
C7_MovesExact ==
    last_op.op = "generate_moves" =>
        /\ {<<last_op.moves[k][3], last_op.moves[k][1]>> : k \in 1..Len(last_op.moves)}
              = RefLegal(static, last_op.state)
        /\ Len(last_op.moves) = Cardinality(RefLegal(static, last_op.state))

\* generate_moves returned some pushes and left out others, one of them
\* because the player cannot reach the square behind the box
C7_Witness ==
    /\ last_op.op = "generate_moves"
    /\ Len(last_op.moves) >= 2
    /\ \E b \in last_op.state.boxes : \E d \in DirSet :
          /\ <<b, d>> \notin RefLegal(static, last_op.state)
          /\ RefDest(b, d) \in RefFree(static, last_op.state)
          /\ RefStand(b, d) \in RefFree(static, last_op.state)

\* C8: the state a legal push of box b in direction d produces has the
\* player on b's old square and the boxes of the old state with b replaced
\* by b + d, in generate_moves and in apply_move.
C8_PushEffect ==
    /\ last_op.op = "generate_moves" =>
          \A k \in 1..Len(last_op.moves) :
              last_op.moves[k][2] =
                  RefPush(last_op.state, last_op.moves[k][3], last_op.moves[k][1])
    /\ (last_op.op = "apply_move" /\ ~IsRaise(last_op.out)) =>
          \E bd \in RefLegal(static, last_op.state) :
              /\ bd[2] = last_op.direction
              /\ last_op.out = RefPush(last_op.state, bd[1], bd[2])

\* a push of one of two boxes was generated: the other box stays
C8_Witness ==
    /\ last_op.op = "generate_moves"
    /\ Cardinality(last_op.state.boxes) = 2
    /\ last_op.moves # <<>>
    /\ cur_state.player_pos \in last_op.state.boxes
    /\ cur_state.boxes \cap last_op.state.boxes # {}

\* the number of characters of the text that are among cs
CountChars(text, cs) == Cardinality({i \in 1..Len(text) : text[i] \in cs})

\* the text has no player, no box, no goal, or not as many boxes as goals
\* (an empty grid has no player)
StructuralProblem(text) ==
    \/ CountChars(text, {"@", "+"}) = 0
    \/ CountChars(text, {"$", "*"}) = 0
    \/ CountChars(text, {".", "+", "*"}) = 0
    \/ CountChars(text, {"$", "*"}) # CountChars(text, {".", "+", "*"})

\* C9: solve_puzzle returns invalid_puzzle only for a structural problem of
\* the text; a well-formed puzzle ends in success, unsolvable or timeout.
C9_InvalidOnlyStructural ==
    (pc = "done" /\ ~result.success /\ result.reason = "invalid_puzzle")
        => StructuralProblem(puzzle_string)

\* C10: for a text with no player, no box, no goal or a box count that
\* differs from the goal count, solve_puzzle returns invalid_puzzle and
\* solve is never called.
C10_InvalidBeforeSearch ==
    StructuralProblem(puzzle_string) =>
        /\ pc \in {"solve_puzzle", "done"}
        /\ IsPending(solve_out)
        /\ states_explored = 0 /\ open_set = {} /\ closed_set = {}
        /\ pc = "done" => (~result.success /\ result.reason = "invalid_puzzle")

\* a text with a player, two boxes and one goal was refused
C10_Witness ==
    /\ pc = "done"
    /\ CountChars(puzzle_string, {"@", "+"}) = 1
    /\ CountChars(puzzle_string, {"$", "*"}) = 2
    /\ CountChars(puzzle_string, {".", "+", "*"}) = 1
    /\ result.reason = "invalid_puzzle"
    /\ IsPending(solve_out)

\* C11: solve_puzzle never lets an exception escape: its result is always a
\* result record, and when solve raised, the result has success false, the
\* reason invalid_puzzle and the message of the exception as its error.
C11_NoEscape ==
    /\ ~IsRaise(result)
    /\ IsRaise(solve_out) =>
          /\ pc = "done"
          /\ result = [success |-> FALSE, error |-> solve_out.msg,
                       reason |-> "invalid_puzzle"]

\* solve raised while unpacking a move, and solve_puzzle has returned
C11_Witness ==
    /\ pc = "done"
    /\ IsRaise(solve_out)
    /\ solve_out.msg = "too many values to unpack (expected 2)"
    /\ result.reason = "invalid_puzzle"

\* the result has the figures states_explored and time_elapsed
HasFigures(r) ==
    /\ "stats" \in DOMAIN r
    /\ {"states_explored", "time_elapsed"} \subseteq DOMAIN r.stats

FailureReasons == {"invalid_puzzle", "unsolvable", "timeout"}

\* C12 as stated: every failure result of solve_puzzle has a reason among
\* invalid_puzzle, unsolvable and timeout, an error string, and the figures
\* states_explored and time_elapsed.
C12_AllFailuresHaveFigures ==
    (pc = "done" /\ ~result.success) =>
        /\ result.reason \in FailureReasons
        /\ "error" \in DOMAIN result
        /\ HasFigures(result)

\* C12: every failure result of solve_puzzle has a reason among
\* invalid_puzzle, unsolvable and timeout and a non-empty error string; the
\* unsolvable and timeout results have the figures states_explored and
\* time_elapsed, and the invalid_puzzle results have neither.
C12_FailureShape ==
    (pc = "done" /\ ~result.success) =>
        /\ result.reason \in FailureReasons
        /\ "error" \in DOMAIN result /\ result.error # ""
        /\ result.reason \in {"unsolvable", "timeout"} =>
              /\ HasFigures(result)
              /\ result.stats.states_explored \in 0..max_states
              /\ result.stats.time_elapsed \in 0..MaxClock
        /\ result.reason = "invalid_puzzle" =>
              DOMAIN result = {"success", "error", "reason"}

\* a budget stop has returned with its figures
C12_Witness ==
    /\ pc = "done" /\ ~result.success
    /\ result.reason = "timeout"
    /\ HasFigures(result)
    /\ result.stats.time_elapsed > TimeoutArg

\* p has a wall above or below it and a wall to its left or right
RefCorner(st, p) ==
    /\ \E v \in {<<0, -1>>, <<0, 1>>} : <<p[1] + v[1], p[2] + v[2]>> \in st.walls
    /\ \E h \in {<<-1, 0>>, <<1, 0>>} : <<p[1] + h[1], p[2] + h[2]>> \in st.walls

\* some box of the initial state is on a corner square that is not a goal
StartsCornered ==
    \E b \in initial_state.boxes : b \notin static.goals /\ RefCorner(static, b)

\* C13: a puzzle in which a box starts on a non-goal corner square, when
\* solve_puzzle has returned without a budget stop, is reported unsolvable
\* with states_explored = 0: no state was expanded.
C13_CornerPrecheck ==
    (/\ pc = "done"
     /\ StartsCornered
     /\ ~(SolveReturned /\ solve_out.reason = "timeout"))
        => /\ SolveReturned
           /\ solve_out.reason = "unsolvable"
           /\ solve_out.stats.states_explored = 0

\* C14: when the initial state has boxes = goals, solve returns success
\* with the empty solution and states_explored = 0; every other successful
\* result has states_explored >= 1.
C14_StartSolved ==
    /\ (~IsPending(solve_out) /\ initial_state.boxes = static.goals) =>
          /\ SolveSucceeded
          /\ solve_out.solution = <<>>
          /\ solve_out.stats.states_explored = 0
    /\ (SolveSucceeded /\ initial_state.boxes # static.goals) =>
          solve_out.stats.states_explored >= 1

\* solve has returned for a puzzle whose two boxes start on its two goals
C14_Witness ==
    /\ SolveSucceeded
    /\ initial_state.boxes = static.goals
    /\ Cardinality(initial_state.boxes) = 2
    /\ solve_out.solution = <<>>

\* solve has returned a failure with this reason
SolveFailed(reason) ==
    SolveReturned /\ ~solve_out.success /\ solve_out.reason = reason

\* C15: with a non-empty frontier and states_explored at max_states the
\* only step of the loop is the return of reason timeout, so no pop takes
\* place beyond the budget; a timeout result is returned with a non-empty
\* frontier, with the elapsed time beyond timeout or states_explored at
\* max_states; an unsolvable result is returned with an empty frontier (by
\* the pre-check, before any state is explored, or by the loop running out
\* of entries), never by a budget stop.
C15_Budget ==
    /\ [][(pc = "loop" /\ open_set # {} /\ states_explored >= max_states) =>
              (pc' = "done" /\ solve_out'.reason = "timeout"
                  /\ open_set' = open_set /\ states_explored' = states_explored)]_vars
    /\ [](SolveFailed("timeout") =>
              /\ open_set # {}
              /\ solve_out.stats.states_explored = states_explored
              /\ \/ solve_out.stats.time_elapsed > TimeoutArg
                 \/ states_explored >= max_states)
    /\ [](SolveFailed("unsolvable") =>
              /\ open_set = {}
              /\ \/ closed_set = {} /\ solve_out.stats.states_explored = 0
                 \/ closed_set # {} /\ solve_out.stats.states_explored >= 1)

\* the loop stopped on max_states with the clock within timeout
C15_Witness ==
    /\ SolveFailed("timeout")
    /\ open_set # {}
    /\ states_explored >= max_states
    /\ solve_out.stats.time_elapsed <= TimeoutArg

\* some box has no walk over non-wall squares of the grid to any goal
RefWalledOff(st, boxes) ==
    LET open == {p \in (0..(st.width - 1)) \X (0..(st.height - 1)) : p \notin st.walls}
    IN \E b \in boxes : RefWalk({b}, open, st.width * st.height) \cap st.goals = {}

\* C16: solve finds distance_heuristic of the initial boxes infinite exactly
\* when some box has no path over non-wall squares to any goal; it then
\* returns unsolvable with states_explored = 0 without entering the loop:
\* nothing is put on the frontier and no state is closed.
C16_HeuristicPrecheck ==
    /\ pc = "loop" => ~RefWalledOff(static, initial_state.boxes)
    /\ ~IsPending(solve_out) =>
          /\ (distance_heuristic(initial_state.boxes, static.goals, goal_distances)
                  = Infinity) <=> RefWalledOff(static, initial_state.boxes)
          /\ RefWalledOff(static, initial_state.boxes) =>
                /\ SolveFailed("unsolvable")
                /\ solve_out.stats.states_explored = 0
                /\ open_set = {} /\ closed_set = {} /\ states_explored = 0

\* solve has returned for a puzzle with a wall between the box and the goal
C16_Witness ==
    /\ pc = "done" /\ ~IsPending(solve_out)
    /\ RefWalledOff(static, initial_state.boxes)
    /\ initial_state.boxes \cap static.goals = {}
    /\ solve_out.reason = "unsolvable"

\* C17: whenever is_deadlocked returns true for a state, no sequence of
\* legal pushes from that state reaches boxes = goals.
C17_DeadlockSound ==
    (last_op.op = "is_deadlocked" /\ last_op.out) =>
        MinPushes(static, last_op.state) = -1

\* C18: a box on a square of deadlock_squares is the box of no move that
\* generate_moves returns and is on the same square in the state that
\* follows, so in every later state; and from a state with a box on such a
\* square no sequence of legal pushes reaches boxes = goals.
C18_DeadlockSquarePermanent ==
    /\ last_op.op = "generate_moves" =>
          \A b \in last_op.state.boxes \cap static.deadlock_squares :
              /\ \A k \in 1..Len(last_op.moves) :
                     /\ last_op.moves[k][3] # b
                     /\ b \in last_op.moves[k][2].boxes
              /\ b \in cur_state.boxes
              /\ \A d \in DirSet : <<b, d>> \notin RefLegal(static, last_op.state)
    /\ cur_state.boxes \cap static.deadlock_squares # {} =>
          MinPushes(static, cur_state) = -1

\* another box was pushed while a box stood on a deadlock square
C18_Witness ==
    /\ last_op.op = "generate_moves"
    /\ last_op.moves # <<>>
    /\ last_op.state.boxes \cap static.deadlock_squares # {}
    /\ cur_state.boxes # last_op.state.boxes
    /\ cur_state.boxes \cap static.deadlock_squares # {}

\* C19: the deadlock_squares that solve_puzzle computes for a puzzle are
\* exactly the squares of the grid that are neither wall nor goal and have
\* a wall above or below and a wall to the left or right; none of them is
\* a wall or a goal.
C19_StaticDeadlocksExact ==
    pc # "solve_puzzle" =>
        /\ static.deadlock_squares =
              {p \in (0..(static.width - 1)) \X (0..(static.height - 1)) :
                  p \notin static.walls /\ p \notin static.goals /\ RefCorner(static, p)}
        /\ static.deadlock_squares \cap (static.walls \cup static.goals) = {}

\* a puzzle with a corner square in its bottom row and a goal in a corner
C19_Witness ==
    /\ pc = "solve"
    /\ \E p \in static.deadlock_squares : p[2] = static.height - 1
    /\ \E g \in static.goals : RefCorner(static, g)

\* no box of the state is on a wall or outside the grid, and there are as
\* many boxes as goals
RefWellFormed(st, state) ==
    /\ state.boxes \cap st.walls = {}
    /\ \A b \in state.boxes :
          b[1] >= 0 /\ b[1] < st.width /\ b[2] >= 0 /\ b[2] < st.height
    /\ Cardinality(state.boxes) = Cardinality(st.goals)

\* C20: in every state reached from an initial state by pushes of
\* generate_moves and apply_move, and in every state these two return, no
\* box is on a wall, every box is inside the grid, and the number of boxes
\* is the number of goals.
C20_StateInvariant ==
    /\ RefWellFormed(static, cur_state)
    /\ last_op.op = "generate_moves" =>
          \A k \in 1..Len(last_op.moves) : RefWellFormed(static, last_op.moves[k][2])
    /\ (last_op.op = "apply_move" /\ ~IsRaise(last_op.out)) =>
          RefWellFormed(static, last_op.out)

\* apply_move has pushed one of two boxes to a square beside a wall, at the
\* edge of the grid
C20_Witness ==
    /\ last_op.op = "apply_move" /\ ~IsRaise(last_op.out)
    /\ Cardinality(cur_state.boxes) = 2
    /\ \E b \in cur_state.boxes \ last_op.state.boxes :
          /\ RefStep(b) \cap static.walls # {}
          /\ b[1] \in {0, static.width - 1} \/ b[2] \in {0, static.height - 1}

\* C21: for every state from which boxes = goals is reachable, the value of
\* distance_heuristic is at most the least number of legal pushes from the
\* state to boxes = goals.
C21_Admissible ==
    (last_op.op = "distance_heuristic" /\ MinPushes(static, cur_state) >= 0) =>
        last_op.h <= MinPushes(static, cur_state)

\* a solvable state of two or more boxes whose least number of pushes is
\* above the heuristic
C21_Witness ==
    /\ last_op.op = "distance_heuristic"
    /\ Cardinality(cur_state.boxes) >= 2
    /\ last_op.h >= 2
    /\ MinPushes(static, cur_state) > last_op.h

\* the least number of pushes that bring a box standing alone on sq to the
\* square g, with the player on the best free square; -1 when no sequence
\* of pushes does
RefLonePushes(st, sq, g) ==
    LET alone == [st EXCEPT !.goals = {g}]
        found == {MinPushes(alone, [player_pos |-> p, boxes |-> {sq}]) :
                     p \in {q \in (0..(st.width - 1)) \X (0..(st.height - 1)) :
                               q \notin st.walls /\ q # sq}} \ {-1}
    IN IF found = {} THEN -1 ELSE Min(found)

\* C22 as stated: the goal indices number the goals in some order, and for
\* every non-wall square and every goal index, the table of
\* precompute_goal_distances has an entry exactly when a box alone on the
\* square can be pushed to that goal, and the entry is the least number of
\* pushes that does it.
C22_TableIsPushDistance ==
    pc = "table" =>
        \E goal_list \in Orderings(static.goals) :
        \A sq \in ((0..(static.width - 1)) \X (0..(static.height - 1))) \ static.walls :
        \A idx \in 0..(Cardinality(static.goals) - 1) :
            LET key == <<sq[1], sq[2], idx>>
                pushes == RefLonePushes(static, sq, goal_list[idx + 1])
            IN /\ key \in DOMAIN goal_distances <=> pushes >= 0
               /\ key \in DOMAIN goal_distances => goal_distances[key] = pushes

\* the number of rounds of orthogonal steps over the squares of open after
\* which the squares walked to, n rounds being done, include g; -1 when
\* they never do
RECURSIVE RefStepsFrom(_, _, _, _)
RefStepsFrom(walked, open, g, n) ==
    IF g \in walked THEN n
    ELSE LET more == walked \cup (UNION {RefStep(p) : p \in walked} \cap open)
         IN IF more = walked THEN -1 ELSE RefStepsFrom(more, open, g, n + 1)

\* the least number of orthogonal steps over non-wall squares of the grid
\* from sq to g; -1 when there is no such path
RefSteps(st, sq, g) ==
    RefStepsFrom({sq},
        {p \in (0..(st.width - 1)) \X (0..(st.height - 1)) : p \notin st.walls}, g, 0)

\* C22: the goal indices number the goals in some order, and for every
\* non-wall square and every goal index, the table of
\* precompute_goal_distances has an entry exactly when a path of orthogonal
\* steps over non-wall squares joins the square and that goal, and the entry
\* is the least number of steps of such a path; squares on walls have no
\* entry.
C22_TableIsStepDistance ==
    pc = "table" =>
        /\ \E goal_list \in Orderings(static.goals) :
           \A sq \in ((0..(static.width - 1)) \X (0..(static.height - 1))) \ static.walls :
           \A idx \in 0..(Cardinality(static.goals) - 1) :
               LET key == <<sq[1], sq[2], idx>>
                   steps == RefSteps(static, sq, goal_list[idx + 1])
               IN /\ key \in DOMAIN goal_distances <=> steps >= 0
                  /\ key \in DOMAIN goal_distances => goal_distances[key] = steps
        /\ \A key \in DOMAIN goal_distances :
              /\ <<key[1], key[2]>> \notin static.walls
              /\ key[3] \in 0..(Cardinality(static.goals) - 1)

\* a table with an entry for a square whose shortest path to the goal goes
\* round a wall
C22_Witness ==
    /\ pc = "table"
    /\ \E key \in DOMAIN goal_distances : \E g \in static.goals :
          LET dx == IF key[1] >= g[1] THEN key[1] - g[1] ELSE g[1] - key[1]
              dy == IF key[2] >= g[2] THEN key[2] - g[2] ELSE g[2] - key[2]
          IN /\ goal_distances[key] = RefSteps(static, <<key[1], key[2]>>, g)
             /\ \A o \in static.goals \ {g} :
                   RefSteps(static, <<key[1], key[2]>>, o) # goal_distances[key]
             /\ goal_distances[key] > dx + dy

\* the table distances of the square b, over the goal indices
RefEntries(table, b) ==
    {table[k] : k \in {key \in DOMAIN table : key[1] = b[1] /\ key[2] = b[2]}}

\* the sum of the smallest table distances of the first n squares of seq
RECURSIVE RefSumMin(_, _, _)
RefSumMin(table, seq, n) ==
    IF n = 0 THEN 0
    ELSE Min(RefEntries(table, seq[n])) + RefSumMin(table, seq, n - 1)

\* C23: distance_heuristic is infinity if and only if some box has no table
\* entry for any goal index, and otherwise it is the sum over the boxes of
\* the smallest table distance of the box's square.
C23_HeuristicIsSumOfMinima ==
    last_op.op = "distance_heuristic" =>
        IF \E b \in last_op.boxes : RefEntries(goal_distances, b) = {}
        THEN last_op.h = Infinity
        ELSE /\ last_op.h # Infinity
             /\ last_op.h = RefSumMin(goal_distances, RefRowMajor(last_op.boxes),
                                      Cardinality(last_op.boxes))

\* the heuristic of three boxes, each at its own distance from the goals
C23_Witness ==
    /\ last_op.op = "distance_heuristic"
    /\ Cardinality(last_op.boxes) = 3
    /\ last_op.h # Infinity
    /\ Cardinality({Min(RefEntries(goal_distances, b)) : b \in last_op.boxes}) = 3

\* C24: get_reachable_positions returns exactly the squares of the grid
\* joined to player_pos by orthogonal steps over squares that are neither
\* wall nor box; player_pos is among them, and no wall or box square is.
C24_ReachableExact ==
    last_op.op = "get_reachable_positions" =>
        /\ last_op.out = RefReach(static, last_op.state)
        /\ last_op.state.player_pos \in last_op.out
        /\ last_op.out \cap (static.walls \cup last_op.state.boxes)
              \subseteq {last_op.state.player_pos}
        /\ last_op.out \subseteq (0..(static.width - 1)) \X (0..(static.height - 1))

\* the player reaches squares two steps away while boxes shut it off from
\* other free squares
C24_Witness ==
    /\ last_op.op = "get_reachable_positions"
    /\ RefFree(static, last_op.state) \ last_op.out # {}
    /\ \E p \in last_op.out :
          RefStep(p) \cap RefStep(last_op.state.player_pos) # {}
              /\ p \notin RefStep(last_op.state.player_pos)
              /\ p # last_op.state.player_pos

\* the text is a well-formed puzzle whose boxes all start on goals and whose
\* goals all hold a box: it has no bare box, no bare goal and no player on
\* a goal
RefSolvedText(text) ==
    ~StructuralProblem(text) /\ CountChars(text, {"$", ".", "+"}) = 0

\* C25: the solution string solve_puzzle returns is fixed by the puzzle
\* text: whatever the clock reads and whatever max_states is, the call
\* succeeds exactly for the texts that start solved and its solution is
\* then the same (empty) string, so two calls on the same puzzle return
\* identical solution strings.
C25_Deterministic ==
    pc = "done" =>
        /\ result.success <=> RefSolvedText(puzzle_string)
        /\ result.success => result.solution = <<>>

\* a successful call whose clock reading was not the earliest one
C25_Witness ==
    /\ pc = "done"
    /\ result.success
    /\ result.stats.time_elapsed = MaxClock
    /\ result.solution = <<>>

\* the request is a JSON object whose puzzle field is present and not empty
RefHasPuzzle(data) ==
    data.kind = "object" /\ "puzzle" \in data.has /\ Len(data.puzzle) > 0

\* C26: the handler of /api/solve answers 200 for every request with a
\* non-empty puzzle, with the success of solve_puzzle in the body; 400 for
\* every JSON object whose puzzle is missing or empty; and 500 only when
\* the handling raised, which here is the request whose body is null.
C26_HttpStatus ==
    pc = "responded" =>
        /\ last_op.status \in {200, 400, 500}
        /\ RefHasPuzzle(last_op.data) =>
              /\ last_op.status = 200
              /\ last_op.body.success = result.success
              /\ ~last_op.body.success =>
                    last_op.body.reason \in {"invalid_puzzle", "unsolvable", "timeout"}
        /\ (last_op.data.kind = "object" /\ ~RefHasPuzzle(last_op.data)) =>
              last_op.status = 400 /\ ~last_op.body.success
        /\ last_op.status = 500 =>
              last_op.data.kind = "null" /\ last_op.body.reason = "server_error"

\* a request whose puzzle solve_puzzle fails on was answered 200 with
\* success false in the body
C26_Witness ==
    /\ pc = "responded"
    /\ last_op.status = 200
    /\ ~last_op.body.success
    /\ last_op.body.reason = "unsolvable"
    /\ "max_states" \notin last_op.data.has

\* the character of the grid at the 0-based square p
RefChar(grid, p) == grid[p[2] + 1][p[1] + 1]

\* C27: extract_elements classifies every cell of the grid by its
\* character: # is a wall, $ a box, . a goal, @ the player, + the player
\* and a goal, * a box and a goal, and any other character nothing; the
\* sets hold no square outside the grid, walls and goals are disjoint and
\* no box is on a wall.
C27_Classification ==
    pc # "solve_puzzle" =>
        LET grid == parse_puzzle_string(puzzle_string)
            e == Elements
            squares == (0..(e.width - 1)) \X (0..(e.height - 1))
        IN /\ e.height = Len(grid)
           /\ e.walls \cup e.boxes \cup e.goals \subseteq squares
           /\ \A p \in squares :
                 LET c == RefChar(grid, p)
                 IN /\ p \in e.walls <=> c = "#"
                    /\ p \in e.boxes <=> (c = "$" \/ c = "*")
                    /\ p \in e.goals <=> (c = "." \/ c = "+" \/ c = "*")
                    /\ (c = "@" \/ c = "+") => e.player # None
                    /\ p = e.player => (c = "@" \/ c = "+")
           /\ e.player # None => e.player \in squares
           /\ e.walls \cap e.goals = {}
           /\ e.boxes \cap e.walls = {}
           /\ pc \in {"solve", "loop"} =>
                 /\ static.walls = e.walls /\ static.goals = e.goals
                 /\ initial_state.boxes = e.boxes
                 /\ initial_state.player_pos = e.player

\* a puzzle with a wall, a bare box, a box on a goal and the player on a
\* goal has been read
C27_Witness ==
    /\ pc = "solve"
    /\ CountChars(puzzle_string, {"#"}) = 1
    /\ CountChars(puzzle_string, {"$"}) = 1
    /\ CountChars(puzzle_string, {"*"}) = 1
    /\ CountChars(puzzle_string, {"+"}) = 1
    /\ Cardinality(static.goals) = 2

\* C30: states_explored always equals the size of the closed set; a step
\* of the expansion loop that changes the closed set adds exactly one
\* state, the state of the popped entry, which was not finalized before,
\* and counts it; a pop that leaves the closed set alone (the popped state
\* was finalized already) only removes the entry: no successor is pushed,
\* the counter, best_g and states_explored stay as they were.
C30_LazyDeletion ==
    /\ [](states_explored = Cardinality(closed_set))
    /\ [][pc = "loop" /\ open_set' # open_set =>
            IF closed_set' # closed_set
            THEN LET s == HeapMin(open_set).state
                 IN /\ s \notin closed_set
                    /\ closed_set' = closed_set \cup {s}
                    /\ states_explored' = states_explored + 1
            ELSE /\ HeapMin(open_set).state \in closed_set
                 /\ open_set' = open_set \ {HeapMin(open_set)}
                 /\ states_explored' = states_explored
                 /\ counter' = counter
                 /\ best_g' = best_g]_vars

\* solve has returned after finalizing one state
C30_Witness ==
    /\ pc = "done"
    /\ SolveReturned
    /\ closed_set = {initial_state}
    /\ states_explored = 1

\* the four cells of the 2x2 block whose top-left cell is p
RefBlock(p) == {<<p[1], p[2]>>, <<p[1] + 1, p[2]>>,
                <<p[1], p[2] + 1>>, <<p[1] + 1, p[2] + 1>>}

\* C32: is_2x2_deadlock returns true exactly when some axis-aligned 2x2
\* block, wherever its top-left cell lies, consists of four boxes that are
\* not all four on goals; a block of four boxes all on goals does not by
\* itself make the answer true.
C32_BlockExact ==
    (pc = "squared" /\ last_op.op = "is_2x2_deadlock") =>
        (last_op.out <=>
            \E x \in -1..SqW : \E y \in -1..SqH :
                /\ RefBlock(<<x, y>>) \subseteq last_op.boxes
                /\ RefBlock(<<x, y>>) \ last_op.goals # {})

\* a block of four boxes all on goals was scanned and not reported, with a
\* fifth box outside it
C32_Witness ==
    /\ pc = "squared"
    /\ last_op.op = "is_2x2_deadlock"
    /\ ~last_op.out
    /\ Cardinality(last_op.boxes) = 5
    /\ \E p \in SqCells : /\ RefBlock(p) \subseteq last_op.boxes
                           /\ RefBlock(p) \subseteq last_op.goals

\* the states reached from the states of S by a chain of moves returned by
\* generate_moves whose directions are those of path, in order
RECURSIVE RefChain(_, _, _)
RefChain(S, path, st) ==
    IF path = <<>> THEN S
    ELSE RefChain({RefMoves(s, st)[k][2] :
                      <<s, k>> \in {sk \in S \X (1..(4 * MaxBoxes)) :
                          /\ sk[2] <= Len(RefMoves(sk[1], st))
                          /\ RefMoves(sk[1], st)[sk[2]][1] = Head(path)}},
                  Tail(path), st)

\* C33: every entry of the frontier has a path of g directions, has
\* f = g + distance_heuristic of its state, and its path is the direction
\* sequence of a chain of moves of generate_moves that leads from the
\* initial state to its state.
C33_EntryInvariant ==
    \A e \in open_set :
        /\ Len(e.path) = e.g
        /\ e.f = e.g + distance_heuristic(e.state.boxes, static.goals, goal_distances)
        /\ e.f < Infinity
        /\ e.state \in RefChain({initial_state}, e.path, static)

\* the frontier holds an entry, for a state that has a legal push
C33_Witness ==
    /\ pc = "loop"
    /\ \E e \in open_set : /\ e.f >= 1
                            /\ Len(RefMoves(e.state, static)) >= 1

\* the result says the search stopped on the state cap
RefCapResult(r) == ~r.success /\ r.error = "Search terminated: max states reached"

\* C34: in every result returned by solve the states_explored figure is at
\* most max_states, and in a result returned because states_explored
\* reached max_states it is exactly max_states.
C34_BudgetInvariant ==
    SolveReturned =>
        /\ solve_out.stats.states_explored <= max_states
        /\ RefCapResult(solve_out) => solve_out.stats.states_explored = max_states

\* solve returned because states_explored had reached max_states
C34_Witness ==
    /\ SolveReturned
    /\ RefCapResult(solve_out)
    /\ solve_out.stats.states_explored = max_states

\* the states of the grid of st: a player square and a set of box squares
RefInGrid(st, state) ==
    /\ InBounds(state.player_pos, st.width, st.height)
    /\ \A b \in state.boxes : InBounds(b, st.width, st.height)

\* C35: with a timeout and a max_states the search cannot reach, solve
\* comes to an end after finitely many loop iterations: the finalized
\* states are states of the finite grid; every iteration either ends the
\* call, or finalizes one more state, or leaves the finalized states alone
\* and takes an entry off the frontier without adding one; while the
\* frontier is not empty an iteration can run, and on an empty frontier
\* the call ends.
C35_Terminates ==
    /\ [](\A s \in closed_set : RefInGrid(static, s))
    /\ [](pc = "loop" /\ open_set # {} => ENABLED LoopPop)
    /\ [][pc = "loop" =>
            \/ pc' = "done"
            \/ /\ open_set # {}
               /\ closed_set \subseteq closed_set'
               /\ Cardinality(closed_set') = Cardinality(closed_set) + 1
            \/ /\ open_set # {}
               /\ closed_set' = closed_set
               /\ open_set' \subseteq open_set
               /\ open_set' # open_set]_vars

\* the call ended after the loop had expanded a state, under the default
\* max_states
C35_Witness ==
    /\ pc = "done"
    /\ max_states = DefaultMaxStates
    /\ closed_set # {}
    /\ open_set = {}

\* the values distance_heuristic gives to the states that the moves of
\* generate_moves lead to from state
RefPushedH(state, st, table) ==
    {distance_heuristic(RefMoves(state, st)[k][2].boxes, st.goals, table) :
        k \in 1..Len(RefMoves(state, st))}

\* C36: the value distance_heuristic gives to a state and the value it
\* gives to any state one legal push away differ by at most 1 (two
\* infinite values count as equal), and for a state with as many boxes as
\* goals the value is 0 exactly when the boxes are the goals.
C36_Consistent ==
    (pc = "h" /\ last_op.op = "distance_heuristic") =>
        /\ \A h2 \in RefPushedH(cur_state, static, goal_distances) :
              /\ last_op.h <= 1 + h2
              /\ h2 <= 1 + last_op.h
              /\ (last_op.h = Infinity) <=> (h2 = Infinity)
        /\ Cardinality(cur_state.boxes) = Cardinality(static.goals) =>
              ((last_op.h = 0) <=> (cur_state.boxes = static.goals))

\* the heuristic was computed for a state with two boxes, one push away
\* from a state of smaller value and one push away from one of larger value
C36_Witness ==
    /\ pc = "h"
    /\ last_op.op = "distance_heuristic"
    /\ Cardinality(cur_state.boxes) = 2
    /\ last_op.h + 1 \in RefPushedH(cur_state, static, goal_distances)
    /\ last_op.h - 1 \in RefPushedH(cur_state, static, goal_distances)

\* the new states of the entries of generate_moves(state) with direction d
RefEntriesFor(state, d, st) ==
    {RefMoves(state, st)[k][2] :
        k \in {i \in 1..Len(RefMoves(state, st)) :
                  RefMoves(state, st)[i][1] = d}}

\* C37: whenever apply_move returns a state for a direction, some entry of
\* generate_moves on the same state has that direction and that new state,
\* and apply_move raises its ValueError exactly when generate_moves has no
\* entry with the direction.
C37_ApplyAgreesWithGenerate ==
    (pc = "moved" /\ last_op.op = "apply_move") =>
        LET entries == RefEntriesFor(last_op.state, last_op.direction, static)
        IN /\ IsRaise(last_op.out) <=> entries = {}
           /\ ~IsRaise(last_op.out) => last_op.out \in entries

\* apply_move returned a state for a direction in which generate_moves has
\* two entries, one for each of two boxes
C37_Witness ==
    /\ pc = "moved"
    /\ last_op.op = "apply_move"
    /\ ~IsRaise(last_op.out)
    /\ Cardinality(RefEntriesFor(last_op.state, last_op.direction, static)) = 2

\* C38: for a state whose boxes are exactly the goals, with no goal on a
\* wall or on a deadlock square, is_deadlocked returns false, and so does
\* each of its three checks: the deadlock-square test, is_freeze_deadlock
\* and is_2x2_deadlock.
C38_SolvedNeverFlagged ==
    (/\ pc = "moved"
     /\ last_op.op = "is_deadlocked"
     /\ last_op.state.boxes = static.goals
     /\ static.goals \cap static.walls = {}
     /\ static.goals \cap static.deadlock_squares = {}) =>
        /\ ~last_op.out
        /\ ~\E box \in last_op.state.boxes : box \in static.deadlock_squares
        /\ ~is_freeze_deadlock(last_op.state.boxes, static.walls, static.goals)
        /\ ~is_2x2_deadlock(last_op.state.boxes, static.walls, static.goals)

\* is_deadlocked answered for a solved state with a box walled into the
\* corner (0,0) and four boxes in a 2x2 block
C38_Witness ==
    /\ pc = "moved"
    /\ last_op.op = "is_deadlocked"
    /\ ~last_op.out
    /\ last_op.state.boxes = static.goals
    /\ static.walls = {<<1, 0>>, <<0, 1>>}
    /\ <<0, 0>> \in last_op.state.boxes
    /\ RefBlock(<<1, 1>>) \subseteq last_op.state.boxes

\* the player of state stands inside the grid, off the walls and off the
\* boxes
RefPlayerFree(st, state) ==
    /\ state.player_pos # None
    /\ InBounds(state.player_pos, st.width, st.height)
    /\ state.player_pos \notin st.walls
    /\ state.player_pos \notin state.boxes

\* C39: the player of the current state stands on a free square, and in
\* every state generate_moves or apply_move builds by a push from such a
\* state the player stands inside the grid, on no wall and on no box.
C39_PlayerPlacement ==
    /\ RefPlayerFree(static, cur_state)
    /\ (last_op.op = "generate_moves" /\ RefPlayerFree(static, last_op.state)) =>
          \A k \in 1..Len(last_op.moves) : RefPlayerFree(static, last_op.moves[k][2])
    /\ (/\ last_op.op = "apply_move"
        /\ RefPlayerFree(static, last_op.state)
        /\ ~IsRaise(last_op.out)) =>
          RefPlayerFree(static, last_op.out)

\* apply_move has pushed a box onto the square the player stood on, and the
\* player stands where the box was
C39_Witness ==
    /\ pc = "moved"
    /\ last_op.op = "apply_move"
    /\ ~IsRaise(last_op.out)
    /\ last_op.state.player_pos \in last_op.out.boxes
    /\ last_op.out.player_pos \in last_op.state.boxes

====
